---- MODULE Spec2Model ----
(***************************************************************************)
(* A model of the file-management utilities of the win-pytreat practicals: *)
(*   nifti_splitext        (write_your_own_os_path_splitext.py)            *)
(*   rename_subject_dirs   (re_name_subject_directories.py)                *)
(*   reorganise_data_set   (re_organise_a_data_set.py)                     *)
(*   rename_subject_files  (re_name_subject_files.py)                      *)
(*   get_image, get_image_nogroup                                          *)
(*                (write_a_function_to_return_a_specific_image_file.py)    *)
(*                                                                         *)
(* Python strings are sequences of one-character strings, so that          *)
(* str.split, str.endswith, slicing, int() and str.format are computed as  *)
(* Python computes them.                                                   *)
(***************************************************************************)
EXTENDS Integers, Sequences, FiniteSets, TLC

VARIABLES
    fn,         \* the function under execution
    pc,         \* its position: a label of the function's body
    path,       \* nifti_splitext: the path argument
    exts,       \* nifti_splitext: the exts argument, <<>> for None, <<list>> otherwise
    result,     \* the returned value, <<>> while the function has not returned
    dirname,    \* the data set directory argument (a path string)
    fs,         \* the directory tree below dirname: a set of nodes [p, id]
    subjdirs,   \* local: the globbed subject directories (path strings)
    subjids,    \* local: the subject IDs derived from subjdirs
    newsubjdirs,\* rename_subject_dirs local: the new subject directory names
    idx,        \* the index of the running loop
    err,        \* the exception that ended the call, "" when none
    run,        \* rename_subject_dirs: 1 in the first call, 2 in the second
    fs1,        \* rename_subject_dirs: the tree as the first call left it
    groupLabels,\* reorganise_data_set: the groupLabels argument
    groups,     \* reorganise_data_set: the groups argument
    gidx,       \* reorganise_data_set: the index of the group loop
    subjdir,    \* rename_subject_files: the subjdir argument, then its normal form
    group,      \* the group argument
    files,      \* rename_subject_files: the files in subjdir, a set of [name, id]
    files0,     \* rename_subject_files: the files in subjdir when it was called
    imgfiles,   \* rename_subject_files local: the globbed image files
    newimgfiles,\* rename_subject_files local: their new names
    tree,       \* get_image: the tree below dirname, a set of nodes [p, kind]
    lsorder,    \* get_image: the order in which directory listings return names
    subjID,     \* get_image: the subjID argument
    modality,   \* get_image: the modality argument
    padsubjID,  \* get_image local: the matched ID text, <<"None">> for None
    walked,     \* get_image_nogroup: the directories os.walk yields, in order
    result2     \* get_image_nogroup: the returned value, <<>> before it returns

splitVars == <<path, exts, result>>

dataVars == <<dirname, fs, subjdirs, subjids, newsubjdirs, idx, err, run, fs1,
              groupLabels, groups, gidx>>

fileVars == <<subjdir, group, files, files0, imgfiles, newimgfiles>>

locVars == <<tree, lsorder, subjID, modality, padsubjID, walked, result2>>

vars == <<fn, pc, path, exts, result,
          dirname, fs, subjdirs, subjids, newsubjdirs, idx, err, run, fs1,
          groupLabels, groups, gidx,
          subjdir, group, files, files0, imgfiles, newimgfiles,
          tree, lsorder, subjID, modality, padsubjID, walked, result2>>

(***************************************************************************)
(* Strings                                                                 *)
(***************************************************************************)
Min(a, b) == IF a < b THEN a ELSE b

Max(a, b) == IF a > b THEN a ELSE b

\* s[:e] with Python's slice semantics (a negative e counts from the end; -0 is 0)
SliceTo(s, e) ==
    LET n == Len(s)
        k == IF e < 0 THEN Max(n + e, 0) ELSE Min(e, n)
    IN  SubSeq(s, 1, k)

\* s[b:] with Python's slice semantics
SliceFrom(s, b) ==
    LET n == Len(s)
        k == IF b < 0 THEN Max(n + b, 0) ELSE Min(b, n)
    IN  SubSeq(s, k + 1, n)

\* s.endswith(suf)
EndsWith(s, suf) ==
    /\ Len(suf) <= Len(s)
    /\ SubSeq(s, Len(s) - Len(suf) + 1, Len(s)) = suf

\* s.startswith(pre)
StartsWith(s, pre) ==
    /\ Len(pre) <= Len(s)
    /\ SubSeq(s, 1, Len(pre)) = pre

\* s.split(c) for a one-character separator c: the list of the pieces
RECURSIVE Split(_, _)
Split(s, c) ==
    IF \E i \in 1..Len(s) : s[i] = c
    THEN LET i == CHOOSE k \in 1..Len(s) :
                      s[k] = c /\ \A j \in 1..(k - 1) : s[j] # c
         IN  <<SubSeq(s, 1, i - 1)>> \o Split(SubSeq(s, i + 1, Len(s)), c)
    ELSE <<s>>

DigitChars == <<"0", "1", "2", "3", "4", "5", "6", "7", "8", "9">>

IsDigit(c) == \E i \in 1..10 : DigitChars[i] = c

DigitVal(c) == (CHOOSE i \in 1..10 : DigitChars[i] = c) - 1

\* int(s) succeeds: s is a non-empty string of decimal digits (no sign and no
\* white space occur in the names of the model)
IsInt(s) == Len(s) > 0 /\ \A i \in 1..Len(s) : IsDigit(s[i])

\* int(s), for IsInt(s)
RECURSIVE IntOf(_)
IntOf(s) ==
    IF Len(s) = 0 THEN 0
    ELSE 10 * IntOf(SubSeq(s, 1, Len(s) - 1)) + DigitVal(s[Len(s)])

\* str(n) for n >= 0
RECURSIVE DecStr(_)
DecStr(n) ==
    IF n < 10 THEN <<DigitChars[n + 1]>>
    ELSE DecStr(n \div 10) \o <<DigitChars[(n % 10) + 1]>>

RECURSIVE Zeros(_)
Zeros(k) == IF k <= 0 THEN <<>> ELSE <<"0">> \o Zeros(k - 1)

\* '{:0<w>d}'.format(n) for n >= 0: str(n) left-padded with zeros to width w
ZeroPad(n, w) == Zeros(w - Len(DecStr(n))) \o DecStr(n)

\* The elements of a sequence
Range(s) == {s[i] : i \in 1..Len(s)}

\* The subsets of S with at most k elements
RECURSIVE SubsetsUpTo(_, _)
SubsetsUpTo(S, k) ==
    IF k <= 0 THEN {{}}
    ELSE LET smaller == SubsetsUpTo(S, k - 1)
         IN  smaller \cup {T \cup {x} : T \in smaller, x \in S}

\* The sequences over S of length 0..n
SeqsUpTo(S, n) == UNION {[1..k -> S] : k \in 0..n}

\* The orders in which a directory listing may return the set S of names:
\* glob and os.walk return entries in the arbitrary order of os.scandir
Orderings(S) ==
    {f \in [1..Cardinality(S) -> S] : \A a, b \in 1..Cardinality(S) : a # b => f[a] # f[b]}

(***************************************************************************)
(* Paths and the directory tree                                            *)
(***************************************************************************)
SUBJ_ == <<"s", "u", "b", "j", "_">>

\* File name extensions
NII == <<".", "n", "i", "i">>

GZ == <<".", "g", "z">>

NIIGZ == NII \o GZ

IMG == <<".", "i", "m", "g">>

\* os.path.join(a, b) for a relative b and a non-empty a without trailing slash
OpJoin(a, b) == a \o <<"/">> \o b

\* os.path.basename(s)
Basename(s) == LET parts == Split(s, "/") IN parts[Len(parts)]

\* The node a path string below dirname names: its components relative to dirname
Resolve(root, s) == Split(SubSeq(s, Len(root) + 2, Len(s)), "/")

IsPrefix(a, b) == Len(a) <= Len(b) /\ SubSeq(b, 1, Len(a)) = a

\* os.path.exists(p); every node of the data set tree is a directory
Exists(f, p) == \E n \in f : n.p = p

\* os.rename(from, to) of a directory: the directory and all below it move
RenameTree(f, from, to) ==
    { IF IsPrefix(from, n.p)
      THEN [n EXCEPT !.p = to \o SubSeq(n.p, Len(from) + 1, Len(n.p))]
      ELSE n : n \in f }

\* os.rename(src, dst) of a directory onto a path that does not exist, with the
\* errors shutil.move turns its failure into. The result is the exception raised
\* ("" for none) and the tree afterwards.
RenameDir(f, src, dst) ==
    IF ~ Exists(f, src) THEN [err |-> "FileNotFoundError", fs |-> f]
    ELSE IF IsPrefix(src, dst) THEN [err |-> "shutil.Error", fs |-> f]
    ELSE [err |-> "", fs |-> RenameTree(f, src, dst)]

\* A variant of shutil.move without the same-file test
ShutilMoveNoSameFile(f, src, dst) ==
    IF Exists(f, dst)
    THEN LET real_dst == dst \o <<src[Len(src)]>>
         IN  IF Exists(f, real_dst) THEN [err |-> "shutil.Error", fs |-> f]
             ELSE RenameDir(f, src, real_dst)
    ELSE RenameDir(f, src, dst)

\* shutil.move(src, dst) on directories: when dst is an existing directory, src
\* is renamed to itself if it is dst, and is otherwise moved inside dst, which
\* raises if dst already holds that name; when dst does not exist src is renamed
\* to dst.
ShutilMove(f, src, dst) ==
    IF Exists(f, dst)
    THEN IF Exists(f, src) /\ src = dst THEN [err |-> "", fs |-> f]
         ELSE LET real_dst == dst \o <<src[Len(src)]>>
              IN  IF Exists(f, real_dst) THEN [err |-> "shutil.Error", fs |-> f]
                  ELSE RenameDir(f, src, real_dst)
    ELSE RenameDir(f, src, dst)

\* glob.glob(op.join(dirname, 'subj_*')): the names directly in dirname that
\* start with subj_
GlobSubj(f) == {n.p[1] : n \in {m \in f : Len(m.p) = 1 /\ StartsWith(m.p[1], SUBJ_)}}

\* sd.split('_')[1]: the text the code passes to int() for subject directory sd
SubjIdText(sd) == Split(sd, "_")[2]

\* The integer after subj_ in a subject directory's own name
NameId(name) == IntOf(SubSeq(name, Len(SUBJ_) + 1, Len(name)))

\* The data set roots of the model: d, m_s, a_1_b
Dirnames == { <<"d">>, <<"m", "_", "s">>, <<"a", "_", "1", "_", "b">> }

\* The largest subject ID, the most leading zeros of a directory name and the
\* most subject directories of a data set
MaxId == 10

MaxPad == 1

MaxSubj == 2

SubjNames == {SUBJ_ \o Zeros(k) \o DecStr(n) : n \in 0..MaxId, k \in 0..MaxPad}

\* The data sets: up to MaxSubj subject directories, each node tagged with the
\* name it has at the start
DataSets ==
    { {[p |-> <<name>>, id |-> name] : name \in S} :
        S \in SubsetsUpTo(SubjNames, MaxSubj) }

\* The functions on data set directories are not running
DataIdle ==
    /\ dirname = <<>>
    /\ fs = {}
    /\ subjdirs = <<>>
    /\ subjids = <<>>
    /\ newsubjdirs = <<>>
    /\ idx = 0
    /\ err = ""
    /\ run = 0
    /\ fs1 = {}
    /\ groupLabels = <<>>
    /\ groups = <<>>
    /\ gidx = 0

SplitIdle == path = <<>> /\ exts = <<>> /\ result = <<>>

\* get_image and get_image_nogroup are not running
LocIdle ==
    /\ tree = {}
    /\ lsorder = <<>>
    /\ subjID = 0
    /\ modality = <<>>
    /\ padsubjID = <<>>
    /\ walked = <<>>
    /\ result2 = <<>>

\* rename_subject_files is not running
FilesIdle ==
    /\ subjdir = <<>>
    /\ group = <<>>
    /\ files = {}
    /\ files0 = {}
    /\ imgfiles = <<>>
    /\ newimgfiles = <<>>

(***************************************************************************)
(* rename_subject_dirs                                                     *)
(***************************************************************************)
\* int(np.ceil(np.log10(m + 1))): the least k with 10^k >= m + 1
RECURSIVE CeilLog10(_)
CeilLog10(x) == IF x <= 1 THEN 0 ELSE 1 + CeilLog10((x + 9) \div 10)

\* max(subjids), for a non-empty list
MaxOf(ids) == CHOOSE m \in Range(ids) : \A x \in Range(ids) : x <= m

\* ndigits
NDigits(ids) == CeilLog10(MaxOf(ids) + 1)

\* fmtstr.format(sid) with fmtstr = 'subj_{:0<ndigits>d}'
FmtSubj(ndigits, sid) == SUBJ_ \o ZeroPad(sid, ndigits)

RenInit ==
    /\ fn = "rename_subject_dirs"
    /\ pc = "list"
    /\ dirname \in Dirnames
    /\ fs \in DataSets
    /\ subjdirs = <<>>
    /\ subjids = <<>>
    /\ newsubjdirs = <<>>
    /\ idx = 0
    /\ err = ""
    /\ run = 1
    /\ fs1 = {}
    /\ groupLabels = <<>>
    /\ groups = <<>>
    /\ gidx = 0
    /\ SplitIdle
    /\ FilesIdle
    /\ LocIdle

\* Lines 19-35: glob the subject directories, derive the IDs, the number of
\* digits and the new names. int() raises ValueError on a text that is no
\* integer, max() raises ValueError on an empty list.
RenList ==
    /\ fn = "rename_subject_dirs"
    /\ pc = "list"
    /\ \E order \in Orderings(GlobSubj(fs)) :
         LET sds == [k \in 1..Len(order) |-> OpJoin(dirname, order[k])]
         IN  IF \E k \in 1..Len(sds) : ~ IsInt(SubjIdText(sds[k]))
             THEN /\ pc' = "raised"
                  /\ err' = "ValueError: int"
                  /\ subjdirs' = sds
                  /\ UNCHANGED <<subjids, newsubjdirs, idx>>
             ELSE LET ids == [k \in 1..Len(sds) |-> IntOf(SubjIdText(sds[k]))]
                  IN  IF Len(ids) = 0
                      THEN /\ pc' = "raised"
                           /\ err' = "ValueError: max"
                           /\ subjdirs' = sds
                           /\ subjids' = ids
                           /\ UNCHANGED <<newsubjdirs, idx>>
                      ELSE /\ subjdirs' = sds
                           /\ subjids' = ids
                           /\ newsubjdirs' =
                                [k \in 1..Len(ids) |->
                                    OpJoin(dirname, FmtSubj(NDigits(ids), ids[k]))]
                           /\ idx' = 1
                           /\ pc' = "move"
                           /\ err' = ""
    /\ UNCHANGED <<fn, dirname, fs, run, fs1>>
    /\ UNCHANGED <<groupLabels, groups, gidx>>
    /\ UNCHANGED splitVars
    /\ UNCHANGED locVars
    /\ UNCHANGED fileVars

\* Lines 38-39, one iteration: shutil.move(subjdir, newsubjdir)
RenMove ==
    /\ fn = "rename_subject_dirs"
    /\ pc = "move"
    /\ idx <= Len(subjdirs)
    /\ LET r == ShutilMove(fs, Resolve(dirname, subjdirs[idx]),
                           Resolve(dirname, newsubjdirs[idx]))
       IN  IF r.err = ""
           THEN fs' = r.fs /\ idx' = idx + 1 /\ UNCHANGED <<pc, err>>
           ELSE pc' = "raised" /\ err' = r.err /\ UNCHANGED <<fs, idx>>
    /\ UNCHANGED <<fn, dirname, subjdirs, subjids, newsubjdirs, run, fs1>>
    /\ UNCHANGED <<groupLabels, groups, gidx>>
    /\ UNCHANGED splitVars
    /\ UNCHANGED locVars
    /\ UNCHANGED fileVars

\* The loop is exhausted: the call returns
RenReturn ==
    /\ fn = "rename_subject_dirs"
    /\ pc = "move"
    /\ idx > Len(subjdirs)
    /\ pc' = "done"
    /\ fs1' = IF run = 1 THEN fs ELSE fs1
    /\ UNCHANGED <<fn, dirname, fs, subjdirs, subjids, newsubjdirs, idx, err, run>>
    /\ UNCHANGED <<groupLabels, groups, gidx>>
    /\ UNCHANGED splitVars
    /\ UNCHANGED locVars
    /\ UNCHANGED fileVars

\* rename_subject_dirs is called again on the result of the first call
RenAgain ==
    /\ fn = "rename_subject_dirs"
    /\ pc = "done"
    /\ run = 1
    /\ run' = 2
    /\ pc' = "list"
    /\ subjdirs' = <<>>
    /\ subjids' = <<>>
    /\ newsubjdirs' = <<>>
    /\ idx' = 0
    /\ UNCHANGED <<fn, dirname, fs, err, fs1>>
    /\ UNCHANGED <<groupLabels, groups, gidx>>
    /\ UNCHANGED splitVars
    /\ UNCHANGED locVars
    /\ UNCHANGED fileVars

RenNext == RenList \/ RenMove \/ RenReturn \/ RenAgain

SpecRename == RenInit /\ [][RenNext]_vars

(***************************************************************************)
(* reorganise_data_set                                                     *)
(***************************************************************************)
\* A lookup that takes the ID itself (counted from 0) as the position
ListIndexById(seq, x) == IF x + 1 <= Len(seq) THEN x + 1 ELSE 0

\* seq.index(x), counted from 1; 0 when x is not in seq (ValueError)
ListIndex(seq, x) ==
    IF \E k \in 1..Len(seq) : seq[k] = x
    THEN CHOOSE k \in 1..Len(seq) : seq[k] = x /\ \A j \in 1..(k - 1) : seq[j] # x
    ELSE 0

\* The largest subject ID of the data sets and group definitions given to
\* reorganise_data_set
MaxGroupId == 1

GroupLabelNames == { <<"p">>, <<"c">> }

\* The group label arguments: two labels, distinct or not
GroupLabelArgs == [1..2 -> GroupLabelNames]

\* A set of IDs as the list of its elements in ascending order
RECURSIVE SortedSeq(_)
SortedSeq(S) ==
    IF S = {} THEN <<>>
    ELSE LET m == CHOOSE x \in S : \A y \in S : x <= y
         IN  <<m>> \o SortedSeq(S \ {m})

\* The group definition arguments: one list of IDs for each label
GroupArgs == [1..2 -> {SortedSeq(S) : S \in SUBSET (0..MaxGroupId)}]

OrgDataSets == {d \in DataSets : \A n \in d : NameId(n.id) <= MaxGroupId}

OrgInit ==
    /\ fn = "reorganise_data_set"
    /\ pc = "list"
    /\ dirname \in Dirnames
    /\ fs \in OrgDataSets
    /\ groupLabels \in GroupLabelArgs
    /\ groups \in GroupArgs
    /\ subjdirs = <<>>
    /\ subjids = <<>>
    /\ newsubjdirs = <<>>
    /\ idx = 0
    /\ gidx = 0
    /\ err = ""
    /\ run = 0
    /\ fs1 = {}
    /\ SplitIdle
    /\ FilesIdle
    /\ LocIdle

\* Lines 20-21: glob the subject directories and derive their IDs
OrgList ==
    /\ fn = "reorganise_data_set"
    /\ pc = "list"
    /\ \E order \in Orderings(GlobSubj(fs)) :
         LET sds == [k \in 1..Len(order) |-> OpJoin(dirname, order[k])]
         IN  IF \E k \in 1..Len(sds) : ~ IsInt(SubjIdText(sds[k]))
             THEN /\ pc' = "raised"
                  /\ err' = "ValueError: int"
                  /\ subjdirs' = sds
                  /\ UNCHANGED <<subjids, gidx>>
             ELSE /\ subjdirs' = sds
                  /\ subjids' = [k \in 1..Len(sds) |-> IntOf(SubjIdText(sds[k]))]
                  /\ gidx' = 1
                  /\ pc' = "mkdir"
                  /\ err' = ""
    /\ UNCHANGED <<fn, dirname, fs, newsubjdirs, idx, run, fs1, groupLabels, groups>>
    /\ UNCHANGED splitVars
    /\ UNCHANGED locVars
    /\ UNCHANGED fileVars

\* zip(groupLabels, groups) has the length of the shorter argument
NZipped == Min(Len(groupLabels), Len(groups))

\* Lines 24-28: the next group; os.mkdir(groupdir) raises FileExistsError when
\* the path exists
OrgMkdir ==
    /\ fn = "reorganise_data_set"
    /\ pc = "mkdir"
    /\ gidx <= NZipped
    /\ LET groupdir == OpJoin(dirname, groupLabels[gidx])
           node     == Resolve(dirname, groupdir)
       IN  IF Exists(fs, node)
           THEN pc' = "raised" /\ err' = "FileExistsError" /\ UNCHANGED <<fs, idx>>
           ELSE /\ fs' = fs \cup {[p |-> node, id |-> groupLabels[gidx]]}
                /\ idx' = 1
                /\ pc' = "move"
                /\ UNCHANGED err
    /\ UNCHANGED <<fn, dirname, subjdirs, subjids, newsubjdirs, run, fs1,
                   groupLabels, groups, gidx>>
    /\ UNCHANGED splitVars
    /\ UNCHANGED locVars
    /\ UNCHANGED fileVars

\* Lines 31-36, one iteration: look the subject directory up and move it into
\* the group directory; list.index raises ValueError for an ID not in subjids
OrgMove ==
    /\ fn = "reorganise_data_set"
    /\ pc = "move"
    /\ idx <= Len(groups[gidx])
    /\ LET sid == groups[gidx][idx]
           k   == ListIndex(subjids, sid)
       IN  IF k = 0
           THEN pc' = "raised" /\ err' = "ValueError: index" /\ UNCHANGED <<fs, idx>>
           ELSE LET r == ShutilMove(fs, Resolve(dirname, subjdirs[k]),
                             Resolve(dirname, OpJoin(dirname, groupLabels[gidx])))
                IN  IF r.err = ""
                    THEN fs' = r.fs /\ idx' = idx + 1 /\ UNCHANGED <<pc, err>>
                    ELSE pc' = "raised" /\ err' = r.err /\ UNCHANGED <<fs, idx>>
    /\ UNCHANGED <<fn, dirname, subjdirs, subjids, newsubjdirs, run, fs1,
                   groupLabels, groups, gidx>>
    /\ UNCHANGED splitVars
    /\ UNCHANGED locVars
    /\ UNCHANGED fileVars

\* The inner loop is exhausted: on to the next group
OrgNextGroup ==
    /\ fn = "reorganise_data_set"
    /\ pc = "move"
    /\ idx > Len(groups[gidx])
    /\ gidx' = gidx + 1
    /\ pc' = "mkdir"
    /\ UNCHANGED <<fn, dirname, fs, subjdirs, subjids, newsubjdirs, idx, err, run,
                   fs1, groupLabels, groups>>
    /\ UNCHANGED splitVars
    /\ UNCHANGED locVars
    /\ UNCHANGED fileVars

\* The outer loop is exhausted: the call returns
OrgReturn ==
    /\ fn = "reorganise_data_set"
    /\ pc = "mkdir"
    /\ gidx > NZipped
    /\ pc' = "done"
    /\ UNCHANGED <<fn, dirname, fs, subjdirs, subjids, newsubjdirs, idx, err, run,
                   fs1, groupLabels, groups, gidx>>
    /\ UNCHANGED splitVars
    /\ UNCHANGED locVars
    /\ UNCHANGED fileVars

OrgNext == OrgList \/ OrgMkdir \/ OrgMove \/ OrgNextGroup \/ OrgReturn

SpecReorg == OrgInit /\ [][OrgNext]_vars

\* Both functions that derive subject IDs from globbed paths
DataInit == RenInit \/ OrgInit

DataNext == RenNext \/ OrgNext

SpecData == DataInit /\ [][DataNext]_vars

(***************************************************************************)
(* Properties of rename_subject_dirs and reorganise_data_set               *)
(***************************************************************************)
\* The subject directories; a node keeps, as its id, the name it had at the start
Subjects == {n \in fs : StartsWith(n.id, SUBJ_)}

\* The subject directories have pairwise distinct integer IDs
DistinctIds == \A a, b \in Subjects : a.id # b.id => NameId(a.id) # NameId(b.id)

\* The number of decimal digits of the largest subject ID
PadWidth ==
    Len(DecStr(CHOOSE m \in {NameId(n.id) : n \in Subjects} :
                   \A n \in Subjects : NameId(n.id) <= m))

\* a < b in lexicographic (string) order
RECURSIVE LexLess(_, _)
LexLess(a, b) ==
    IF Len(b) = 0 THEN FALSE
    ELSE IF Len(a) = 0 THEN TRUE
    ELSE LET ca == CHOOSE k \in 1..10 : DigitChars[k] = a[1]
             cb == CHOOSE k \in 1..10 : DigitChars[k] = b[1]
         IN  IF a[1] = b[1] THEN LexLess(Tail(a), Tail(b)) ELSE ca < cb

\* The text after subj_ of a directory name
IdText(name) == SubSeq(name, Len(SUBJ_) + 1, Len(name))

\* Every subject directory lies directly in dirname and is named subj_<id padded
\* to PadWidth>; all names have one length and sort as their IDs do
AllPadded ==
    /\ \A n \in Subjects : n.p = <<SUBJ_ \o ZeroPad(NameId(n.id), PadWidth)>>
    /\ \A a, b \in Subjects :
         /\ Len(a.p[1]) = Len(b.p[1])
         /\ NameId(a.id) < NameId(b.id) => LexLess(IdText(a.p[1]), IdText(b.p[1]))

\* C2: after rename_subject_dirs completes on a data set with pairwise distinct
\* IDs, every subject directory is named subj_<id zero-padded to the number of
\* digits of the largest ID>, so that all names have the same length and their
\* lexicographic order is the numeric order of the IDs.
C2_AllPaddedAfterRename ==
    (fn = "rename_subject_dirs" /\ run = 1 /\ pc = "done" /\ DistinctIds)
        => AllPadded

\* The statement of C2 for a data set directory whose path holds no '_'
RenPaddedOnPlainRoot ==
    (fn = "rename_subject_dirs" /\ run = 1 /\ pc = "done" /\ DistinctIds
        /\ \A k \in 1..Len(dirname) : dirname[k] # "_")
        => AllPadded

\* Two distinct subject directories have the same ID, and so the same padded name
HasCollision ==
    \E a, b \in Subjects : a.id # b.id /\ NameId(a.id) = NameId(b.id)

\* C3: when two distinct subject directories would map to the same zero-padded
\* name, rename_subject_dirs fails with an error: it never completes normally.
C3_CollisionRaises ==
    (fn = "rename_subject_dirs" /\ run = 1 /\ HasCollision) => pc # "done"

\* C7: a second run of rename_subject_dirs on the result of a first run (distinct
\* IDs) raises nothing, moves every subject directory onto itself and leaves the
\* tree, names and nesting, exactly as the first run left it.
C7_SecondRunNoOp ==
    (fn = "rename_subject_dirs" /\ run = 2 /\ DistinctIds) =>
        /\ pc # "raised"
        /\ fs = fs1
        /\ (pc = "move" /\ idx <= Len(subjdirs)) => newsubjdirs[idx] = subjdirs[idx]

\* A second run has completed on a data set of two subjects on which the first
\* run renamed a directory
C7_Witness ==
    /\ fn = "rename_subject_dirs" /\ run = 2 /\ pc = "done" /\ DistinctIds
    /\ Cardinality(Subjects) = 2
    /\ \E n \in Subjects : n.p # <<n.id>>
    /\ \A n \in Subjects : Len(n.p) = 1

\* C10: the subject ID that rename_subject_dirs and reorganise_data_set derive
\* for a subject directory is the integer after subj_ in the directory's own
\* name, whatever the text of the data set directory's path.
C10_IdFromOwnName ==
    (fn \in {"rename_subject_dirs", "reorganise_data_set"}) =>
        /\ err # "ValueError: int"
        /\ (Len(subjids) = Len(subjdirs) =>
              \A k \in 1..Len(subjdirs) : subjids[k] = NameId(Basename(subjdirs[k])))

\* The statement of C10 for data set directories whose path holds no '_'
IdFromOwnNameOnPlainRoot ==
    (\A k \in 1..Len(dirname) : dirname[k] # "_") => C10_IdFromOwnName

\* The group definitions are pairwise disjoint
GroupsDisjoint ==
    \A a, b \in 1..Len(groups) : a # b => Range(groups[a]) \cap Range(groups[b]) = {}

\* Every subject's ID is in some group
GroupsCover ==
    \A n \in Subjects : \E g \in 1..Len(groups) : NameId(n.id) \in Range(groups[g])

\* C1: after reorganise_data_set completes on a data set with pairwise distinct
\* IDs and pairwise disjoint groups that cover every subject, each subject
\* directory lies in exactly one group directory, none is left in dirname, and the
\* directory of groupLabels[g] holds exactly the subjects whose IDs are in groups[g].
C1_Partitioned ==
    (fn = "reorganise_data_set" /\ pc = "done" /\ DistinctIds
        /\ GroupsDisjoint /\ GroupsCover) =>
        /\ \A n \in Subjects :
             /\ Len(n.p) = 2
             /\ n.p[2] = n.id
             /\ Cardinality({g \in 1..Len(groups) : n.p[1] = groupLabels[g]}) = 1
        /\ \A g \in 1..Len(groups) :
             /\ Exists(fs, <<groupLabels[g]>>)
             /\ {NameId(n.id) : n \in {m \in Subjects : m.p[1] = groupLabels[g]}}
                    = Range(groups[g])
        /\ \A a, b \in Subjects : a.id # b.id => a.p # b.p

\* reorganise_data_set has completed and has put two subjects into two groups
C1_Witness ==
    /\ fn = "reorganise_data_set" /\ pc = "done" /\ DistinctIds
    /\ GroupsDisjoint /\ GroupsCover
    /\ Cardinality(Subjects) = 2
    /\ \A g \in 1..Len(groups) : Len(groups[g]) = 1

\* An ID is in more than one group, or a subject's ID is in no group
BadAssignment == ~ GroupsDisjoint \/ ~ GroupsCover

\* C4: on a bad group assignment reorganise_data_set fails before any group
\* directory is created and any subject directory is moved: the call ends with
\* an exception, and the tree is then as it was.
C4_RejectsUpfront ==
    (fn = "reorganise_data_set" /\ BadAssignment /\ pc \in {"done", "raised"}) =>
        /\ pc = "raised"
        /\ \A n \in fs : n \in Subjects /\ n.p = <<n.id>>

(***************************************************************************)
(* rename_subject_files                                                    *)
(***************************************************************************)
\* op.normpath(op.abspath(s)) for an absolute s: a trailing slash is dropped
NormAbs(s) ==
    IF Len(s) > 1 /\ s[Len(s)] = "/" THEN SubSeq(s, 1, Len(s) - 1) ELSE s

_SUBJ_ == <<"_">> \o SUBJ_

\* '{}_subj_{}_{}'.format(group, subjid, name)
NewImgName(grp, subjid, name) == grp \o _SUBJ_ \o subjid \o <<"_">> \o name

\* The names glob.glob(op.join(subjdir, '*' + ext)) matches among the files (no
\* name of the model starts with '.', which '*' would not match)
GlobExt(fl, ext) == {f.name : f \in {g \in fl : EndsWith(g.name, ext)}}

\* os.rename(src, dst) of files in one directory, as POSIX does it: an existing
\* dst is replaced silently
OsRename(fl, src, dst) ==
    IF src = dst THEN fl
    ELSE {f \in fl : f.name # src /\ f.name # dst}
           \cup {[name |-> dst, id |-> f.id] : f \in {g \in fl : g.name = src}}

\* The subjdir arguments: /d/subj_007, /d/subj_007/ and /m_s/subj_12
SubjdirArgs ==
    { <<"/", "d", "/">> \o SUBJ_ \o <<"0", "0", "7">>,
      <<"/", "d", "/">> \o SUBJ_ \o <<"0", "0", "7", "/">>,
      <<"/", "m", "_", "s", "/">> \o SUBJ_ \o <<"1", "2">> }

GroupArgNames == { <<"c", "t", "l">>, <<"p", "a", "t">> }

\* The file names a subject directory starts with, before any prefix
BaseFileNames ==
    { <<"a">> \o NII, <<"a">> \o NIIGZ, <<"b">> \o NIIGZ, <<"n", ".", "t", "x", "t">> }

\* The most files of a subject directory
MaxFiles == 3

\* The file names of a subject directory for a call with group grp: the base
\* names and the names an earlier call with grp has given them
FileNamePool(sd, grp) ==
    BaseFileNames \cup
    {NewImgName(grp, Split(Basename(NormAbs(sd)), "_")[2], b) : b \in BaseFileNames}

FilesInit ==
    /\ fn = "rename_subject_files"
    /\ pc = "list"
    /\ subjdir \in SubjdirArgs
    /\ group \in GroupArgNames
    /\ \E S \in SubsetsUpTo(FileNamePool(subjdir, group), MaxFiles) :
         files = {[name |-> x, id |-> x] : x \in S}
    /\ files0 = files
    /\ imgfiles = <<>>
    /\ newimgfiles = <<>>
    /\ idx = 0
    /\ err = ""
    /\ dirname = <<>> /\ fs = {} /\ subjdirs = <<>> /\ subjids = <<>>
    /\ newsubjdirs = <<>> /\ run = 0 /\ fs1 = {}
    /\ groupLabels = <<>> /\ groups = <<>> /\ gidx = 0
    /\ SplitIdle
    /\ LocIdle

\* Lines 21-39: normalise subjdir, take the ID text from its basename, glob the
\* image files ('*.nii' first, then '*.nii.gz') and generate the new names
FilesList ==
    /\ fn = "rename_subject_files"
    /\ pc = "list"
    /\ LET sd     == NormAbs(subjdir)
           subjid == Split(Basename(sd), "_")[2]
       IN  \E o1 \in Orderings(GlobExt(files, NII)),
              o2 \in Orderings(GlobExt(files, NIIGZ)) :
             LET names == o1 \o o2
             IN  /\ subjdir' = sd
                 /\ imgfiles' = [k \in 1..Len(names) |-> OpJoin(sd, names[k])]
                 /\ newimgfiles' =
                      [k \in 1..Len(names) |->
                          OpJoin(sd, NewImgName(group, subjid, names[k]))]
    /\ idx' = 1
    /\ pc' = "rename"
    /\ UNCHANGED <<fn, err, group, files, files0>>
    /\ UNCHANGED <<dirname, fs, subjdirs, subjids, newsubjdirs, run, fs1,
                   groupLabels, groups, gidx>>
    /\ UNCHANGED splitVars
    /\ UNCHANGED locVars

\* Lines 42-43, one iteration: os.rename(imgfile, newimgfile)
FilesRename ==
    /\ fn = "rename_subject_files"
    /\ pc = "rename"
    /\ idx <= Len(imgfiles)
    /\ IF \E f \in files : f.name = Basename(imgfiles[idx])
       THEN /\ files' = OsRename(files, Basename(imgfiles[idx]),
                                 Basename(newimgfiles[idx]))
            /\ idx' = idx + 1
            /\ UNCHANGED <<pc, err>>
       ELSE /\ pc' = "raised"
            /\ err' = "FileNotFoundError"
            /\ UNCHANGED <<files, idx>>
    /\ UNCHANGED <<fn, subjdir, group, files0, imgfiles, newimgfiles>>
    /\ UNCHANGED <<dirname, fs, subjdirs, subjids, newsubjdirs, run, fs1,
                   groupLabels, groups, gidx>>
    /\ UNCHANGED splitVars
    /\ UNCHANGED locVars

\* The loop is exhausted: the call returns
FilesReturn ==
    /\ fn = "rename_subject_files"
    /\ pc = "rename"
    /\ idx > Len(imgfiles)
    /\ pc' = "done"
    /\ UNCHANGED <<fn, idx, err>>
    /\ UNCHANGED fileVars
    /\ UNCHANGED <<dirname, fs, subjdirs, subjids, newsubjdirs, run, fs1,
                   groupLabels, groups, gidx>>
    /\ UNCHANGED splitVars
    /\ UNCHANGED locVars

FilesNext == FilesList \/ FilesRename \/ FilesReturn

SpecFiles == FilesInit /\ [][FilesNext]_vars

\* A name ends in .nii or .nii.gz
IsImageName(name) == EndsWith(name, NII) \/ EndsWith(name, NIIGZ)

\* The text after subj_ in the basename of the subject directory, verbatim
SubjdirIdText == IdText(Basename(NormAbs(subjdir)))

\* The files of the subject directory with every image file renamed exactly
\* once and every other file left alone
FilesExpected ==
    { [name |-> IF IsImageName(f.name)
                THEN NewImgName(group, SubjdirIdText, f.name)
                ELSE f.name,
       id   |-> f.id] : f \in files0 }

\* C6: rename_subject_files renames every file of subjdir whose name ends in
\* .nii or .nii.gz exactly once, to <group>_subj_<id>_<original basename> with
\* the ID text of the directory name taken verbatim, and leaves other files alone.
C6_EachImageRenamedOnce ==
    (fn = "rename_subject_files" /\ pc = "done") => files = FilesExpected

\* No file of the directory already has the name another file is renamed to
NoTargetTaken ==
    \A f, g \in files0 :
        IsImageName(f.name) => g.name # NewImgName(group, SubjdirIdText, f.name)

\* The statement of C6 for a directory in which no new name is already taken
FilesRenamedOnceIfNoTargetTaken ==
    (fn = "rename_subject_files" /\ pc = "done" /\ NoTargetTaken)
        => files = FilesExpected

(***************************************************************************)
(* get_image and get_image_nogroup                                         *)
(***************************************************************************)
\* The value None, as a returned value and as the value of a local
NoneV == <<"None">>

\* re.compile('subj_(0*{})'.format(sid)).fullmatch(name) is not None
SubjPatMatches(name, sid) ==
    /\ StartsWith(name, SUBJ_)
    /\ LET t == IdText(name)
           d == DecStr(sid)
       IN  /\ EndsWith(t, d)
           /\ \A k \in 1..(Len(t) - Len(d)) : t[k] = "0"

\* os.path.dirname(s)
Dirname(s) ==
    LET last == CHOOSE k \in 1..Len(s) :
                    s[k] = "/" /\ \A j \in (k + 1)..Len(s) : s[j] # "/"
    IN  SubSeq(s, 1, last - 1)

\* '{}_subj_{}_{}.nii.gz'.format(grp, pad, mod)
ImageName(grp, pad, mod) == grp \o _SUBJ_ \o pad \o <<"_">> \o mod \o NIIGZ

\* The names of the directories directly in directory d, in listing order
ListDirs(tr, ord, d) ==
    SelectSeq(ord, LAMBDA nm : [p |-> d \o <<nm>>, kind |-> "dir"] \in tr)

\* The directories that 'for root, dirs, files in os.walk(top): for d in dirs'
\* enumerates below d, top-down, as paths relative to dirname
RECURSIVE WalkDirs(_, _, _)
RECURSIVE WalkEach(_, _, _, _)
WalkDirs(tr, ord, d) ==
    LET names == ListDirs(tr, ord, d)
    IN  [k \in 1..Len(names) |-> d \o <<names[k]>>] \o WalkEach(tr, ord, d, names)

WalkEach(tr, ord, d, names) ==
    IF names = <<>> THEN <<>>
    ELSE WalkDirs(tr, ord, d \o <<Head(names)>>) \o WalkEach(tr, ord, d, Tail(names))

\* The path string of a node below dirname
RECURSIVE PathStr(_, _)
PathStr(root, comps) ==
    IF comps = <<>> THEN root ELSE PathStr(OpJoin(root, Head(comps)), Tail(comps))

T1 == <<"t", "1">>

T2 == <<"t", "2">>

LocGroupNames == { <<"c">>, <<"p">> }

\* The subject IDs asked for
LocIds == {7, 17}

\* The subject directory names of the data set: subj_7 with up to MaxPad
\* leading zeros, and subj_17
LocNames == {SUBJ_ \o Zeros(k) \o DecStr(7) : k \in 0..MaxPad} \cup {SUBJ_ \o DecStr(17)}

\* Where the data set may hold a subject directory: in a group directory,
\* directly in dirname, or inside another subject directory
LocPlaces ==
    {<<g, nm>> : g \in LocGroupNames, nm \in LocNames}
      \cup {<<nm>> : nm \in LocNames \ {SUBJ_ \o DecStr(17)}}
      \cup {<<<<"c">>, SUBJ_ \o DecStr(17), SUBJ_ \o DecStr(7)>>}

\* The name of the directory that holds the node at s
ParentName(root, s) == IF Len(s) = 1 THEN Basename(root) ELSE s[Len(s) - 1]

\* The tree with subject directories at the places S, those at F holding their
\* t1 image, named after the directory that holds the subject directory
LocTree(root, S, F) ==
    UNION {{[p |-> SubSeq(s, 1, k), kind |-> "dir"] : k \in 1..Len(s)} : s \in S}
    \cup {[p |-> s \o <<ImageName(ParentName(root, s), IdText(s[Len(s)]), T1)>>,
           kind |-> "file"] : s \in F}

LocInit ==
    /\ fn = "get_image"
    /\ pc = "list"
    /\ dirname = <<"d">>
    /\ group \in LocGroupNames \cup {<<"x">>}
    /\ subjID \in LocIds
    /\ modality \in {T1, T2}
    /\ \E S \in SubsetsUpTo(LocPlaces, MaxSubj) :
         \E F \in SUBSET S : tree = LocTree(dirname, S, F)
    /\ lsorder \in Orderings({n.p[Len(n.p)] : n \in {m \in tree : m.kind = "dir"}})
    /\ padsubjID = NoneV
    /\ subjdir = NoneV
    /\ subjdirs = <<>>
    /\ walked = <<>>
    /\ result = <<>>
    /\ result2 = <<>>
    /\ idx = 0
    /\ err = ""
    /\ path = <<>> /\ exts = <<>>
    /\ fs = {} /\ subjids = <<>> /\ newsubjdirs = <<>> /\ run = 0 /\ fs1 = {}
    /\ groupLabels = <<>> /\ groups = <<>> /\ gidx = 0
    /\ files = {} /\ files0 = {} /\ imgfiles = <<>> /\ newimgfiles = <<>>

LocUnchanged ==
    /\ UNCHANGED <<dirname, group, subjID, modality, tree, lsorder, err, path, exts>>
    /\ UNCHANGED <<fs, subjids, newsubjdirs, run, fs1, groupLabels, groups, gidx>>
    /\ UNCHANGED <<files, files0, imgfiles, newimgfiles>>

\* os.path.exists(s) for a path string below dirname
OpExists(tr, root, s) == \E n \in tr : n.p = Resolve(root, s)

\* get_image lines 22-29: glob the subject directories of the group directory
GetList ==
    /\ fn = "get_image"
    /\ pc = "list"
    /\ LET groupdir == OpJoin(dirname, group)
           names    == SelectSeq(ListDirs(tree, lsorder, <<group>>),
                                 LAMBDA nm : StartsWith(nm, SUBJ_))
       IN  subjdirs' = [k \in 1..Len(names) |-> OpJoin(groupdir, names[k])]
    /\ padsubjID' = NoneV
    /\ idx' = 1
    /\ pc' = "scan"
    /\ UNCHANGED <<fn, subjdir, walked, result, result2>>
    /\ LocUnchanged

\* get_image lines 37-41, one iteration: the first match ends the loop
GetScan ==
    /\ fn = "get_image"
    /\ pc = "scan"
    /\ idx <= Len(subjdirs)
    /\ subjdir' = subjdirs[idx]
    /\ IF SubjPatMatches(Basename(subjdirs[idx]), subjID)
       THEN /\ padsubjID' = IdText(Basename(subjdirs[idx]))
            /\ pc' = "check"
            /\ UNCHANGED idx
       ELSE /\ idx' = idx + 1
            /\ UNCHANGED <<pc, padsubjID>>
    /\ UNCHANGED <<fn, subjdirs, walked, result, result2>>
    /\ LocUnchanged

\* get_image lines 45-46: the loop ended without a match
GetNoMatch ==
    /\ fn = "get_image"
    /\ pc = "scan"
    /\ idx > Len(subjdirs)
    /\ result' = NoneV
    /\ pc' = "returned"
    /\ UNCHANGED <<fn, subjdir, subjdirs, padsubjID, idx, walked, result2>>
    /\ LocUnchanged

\* get_image lines 50-56: the file name, returned when it exists
GetCheck ==
    /\ fn = "get_image"
    /\ pc = "check"
    /\ LET fname == OpJoin(subjdir, ImageName(group, padsubjID, modality))
       IN  result' = IF OpExists(tree, dirname, fname) THEN fname ELSE NoneV
    /\ pc' = "returned"
    /\ UNCHANGED <<fn, subjdir, subjdirs, padsubjID, idx, walked, result2>>
    /\ LocUnchanged

\* get_image_nogroup is called on the same data set, lines 74-84: os.walk
NgWalk ==
    /\ fn = "get_image"
    /\ pc = "returned"
    /\ fn' = "get_image_nogroup"
    /\ LET dirs == WalkDirs(tree, lsorder, <<>>)
       IN  walked' = [k \in 1..Len(dirs) |-> PathStr(dirname, dirs[k])]
    /\ subjdir' = NoneV
    /\ padsubjID' = NoneV
    /\ idx' = 1
    /\ pc' = "scan"
    /\ UNCHANGED <<subjdirs, result, result2>>
    /\ LocUnchanged

\* get_image_nogroup lines 85-89, one directory: every match replaces the last
NgScan ==
    /\ fn = "get_image_nogroup"
    /\ pc = "scan"
    /\ idx <= Len(walked)
    /\ IF SubjPatMatches(Basename(walked[idx]), subjID)
       THEN /\ subjdir' = walked[idx]
            /\ padsubjID' = IdText(Basename(walked[idx]))
       ELSE UNCHANGED <<subjdir, padsubjID>>
    /\ idx' = idx + 1
    /\ UNCHANGED <<fn, pc, subjdirs, walked, result, result2>>
    /\ LocUnchanged

\* get_image_nogroup lines 91-92: no subject directory was found
NgNoMatch ==
    /\ fn = "get_image_nogroup"
    /\ pc = "scan"
    /\ idx > Len(walked)
    /\ subjdir = NoneV
    /\ result2' = NoneV
    /\ pc' = "returned"
    /\ UNCHANGED <<fn, subjdir, subjdirs, padsubjID, idx, walked, result>>
    /\ LocUnchanged

\* get_image_nogroup lines 96-106: the group is the name of the directory that
\* holds subjdir; the file name is returned when it exists
NgCheck ==
    /\ fn = "get_image_nogroup"
    /\ pc = "scan"
    /\ idx > Len(walked)
    /\ subjdir # NoneV
    /\ LET grp   == Basename(Dirname(subjdir))
           fname == OpJoin(subjdir, ImageName(grp, padsubjID, modality))
       IN  result2' = IF OpExists(tree, dirname, fname) THEN fname ELSE NoneV
    /\ pc' = "returned"
    /\ UNCHANGED <<fn, subjdir, subjdirs, padsubjID, idx, walked, result>>
    /\ LocUnchanged

LocNext ==
    GetList \/ GetScan \/ GetNoMatch \/ GetCheck \/ NgWalk \/ NgScan \/ NgNoMatch \/ NgCheck

SpecLocate == LocInit /\ [][LocNext]_vars

\* The directories of the data set whose name is subj_<subjID with optional
\* leading zeros>
MatchingDirs ==
    {n \in tree : n.kind = "dir" /\ SubjPatMatches(n.p[Len(n.p)], subjID)}

\* The paths dirname/group/subj_P/group_subj_P_modality.nii.gz the data set holds,
\* P being subjID with optional leading zeros
ImagesPresent ==
    { PathStr(dirname, n.p \o <<ImageName(group, IdText(n.p[2]), modality)>>) :
        n \in {m \in MatchingDirs :
                 /\ Len(m.p) = 2
                 /\ m.p[1] = group
                 /\ \E f \in tree :
                      f.p = m.p \o <<ImageName(group, IdText(m.p[2]), modality)>>} }

\* C5: whenever the data set holds dirname/g/subj_P/g_subj_P_m.nii.gz, P being
\* the ID n with optional leading zeros, get_image(dirname, g, n, m) returns that
\* path; in every other case it returns None.
C5_ReturnsImageIffPresent ==
    (result # <<>> /\ fn \in {"get_image", "get_image_nogroup"}) =>
        IF ImagesPresent # {} THEN result \in ImagesPresent ELSE result = NoneV

\* The statement of C5 for a group directory with at most one subject directory
\* of the ID
ImageIffPresentIfUnique ==
    (Cardinality({n \in MatchingDirs : Len(n.p) = 2 /\ n.p[1] = group}) <= 1)
        => C5_ReturnsImageIffPresent

\* C8: when every directory of the data set named subj_<n with optional leading
\* zeros> lies directly in dirname/g, one or several of them,
\* get_image_nogroup(dirname, n, m) returns what get_image(dirname, g, n, m) returns.
C8_NoGroupAgrees ==
    (fn = "get_image_nogroup" /\ pc = "returned"
        /\ \A n \in MatchingDirs : Len(n.p) = 2 /\ n.p[1] = group)
        => result2 = result

\* The statement of C8 for a data set with a single subject directory of the ID
NoGroupAgreesIfUnique ==
    (Cardinality(MatchingDirs) <= 1) => C8_NoGroupAgrees

(***************************************************************************)
(* nifti_splitext                                                          *)
(***************************************************************************)
DefaultExts == <<NII, NIIGZ>>

\* nifti_splitext(path, exts): the pair (prefix, extension)
nifti_splitext(p, e) ==
    LET es         == IF e = <<>> THEN DefaultExts ELSE e[1]
        extMatches == [i \in 1..Len(es) |-> EndsWith(p, es[i])]
    IN  IF ~ \E i \in 1..Len(es) : extMatches[i]
        THEN <<p, <<>> >>
        ELSE LET extIdx == CHOOSE i \in 1..Len(es) :
                               extMatches[i] /\ \A j \in 1..(i - 1) : ~ extMatches[j]
                 extLen == Len(es[extIdx])
             IN  <<SliceTo(p, 0 - extLen), SliceFrom(p, 0 - extLen)>>

\* The longest list of extensions a caller passes
MaxExts == 2

ExtPool == {NII, NIIGZ, GZ, IMG}

SplitPaths ==
    { <<"a">> \o NII, <<"a">> \o NIIGZ, <<"a">> \o GZ, <<"a">> \o IMG \o GZ,
      <<"a", ".", "t", "x", "t">>, <<"a">>, NIIGZ, <<>>,
      <<"a">> \o NIIGZ \o NII }

SplitInit ==
    /\ fn = "nifti_splitext"
    /\ pc = "call"
    /\ path \in SplitPaths
    /\ exts \in {<<>>} \cup {<<l>> : l \in SeqsUpTo(ExtPool, MaxExts)}
    /\ result = <<>>
    /\ DataIdle
    /\ FilesIdle
    /\ LocIdle

CallSplitext ==
    /\ fn = "nifti_splitext"
    /\ pc = "call"
    /\ result' = nifti_splitext(path, exts)
    /\ pc' = "done"
    /\ UNCHANGED <<fn, path, exts>>
    /\ UNCHANGED dataVars
    /\ UNCHANGED fileVars
    /\ UNCHANGED locVars

SplitNext == CallSplitext

SpecSplit == SplitInit /\ [][SplitNext]_vars

\* The recognised extensions in effect for the call
SplitExtsInEffect == IF exts = <<>> THEN DefaultExts ELSE exts[1]

\* The recognised extensions that are a suffix of path
SplitMatching == {e \in Range(SplitExtsInEffect) : EndsWith(path, e)}

\* C9: nifti_splitext(path, exts) returns (prefix, ext) with prefix + ext = path,
\* ext the longest element of exts that is a suffix of path, and ext = '' with
\* prefix = path when no element of exts is a suffix of path.
C9_LongestSuffix ==
    (fn = "nifti_splitext" /\ pc = "done") =>
        /\ result[1] \o result[2] = path
        /\ IF SplitMatching = {}
           THEN result[2] = <<>> /\ result[1] = path
           ELSE /\ result[2] \in SplitMatching
                /\ \A e \in SplitMatching : Len(e) <= Len(result[2])

\* What the code does: prefix + ext = path, and ext is the first element of exts,
\* in list order, that is a suffix of path.
SplitFirstInListOrder ==
    (fn = "nifti_splitext" /\ pc = "done") =>
        /\ result[1] \o result[2] = path
        /\ IF SplitMatching = {}
           THEN result[2] = <<>> /\ result[1] = path
           ELSE \E i \in 1..Len(SplitExtsInEffect) :
                    /\ result[2] = SplitExtsInEffect[i]
                    /\ EndsWith(path, SplitExtsInEffect[i])
                    /\ \A j \in 1..(i - 1) : ~ EndsWith(path, SplitExtsInEffect[j])

\* With the default extensions the longest-suffix property holds.
SplitDefaultLongest ==
    (fn = "nifti_splitext" /\ pc = "done" /\ exts = <<>>) => C9_LongestSuffix
====
